---- MODULE Spec2Model ----
(***************************************************************************)
(* Model of executive::DynamicTranslationCache                              *)
(* (ocelot/executive/implementation/DynamicTranslationCache.cpp).          *)
(*                                                                         *)
(* The cache owns three registries (modules, kernels, subkernelsToKernel), *)
(* the two-level translationCache and the heap objects it allocates        *)
(* (TranslatedKernel, Translation, Metadata).  Each public operation is    *)
(* followed statement by statement; a thread's position inside an          *)
(* operation is th[t].pc, so that the unlocked code can be interleaved.    *)
(*                                                                         *)
(* Reading of the source.  The file refers to a few names it does not      *)
(* declare in the enclosing function: warpSize (line 102, the parameter is *)
(* warpsize), subkernelid (line 1201, the parameter is subkernelId),       *)
(* subkernelId / kernel / module (lines 1092-1130, the loop's current      *)
(* subkernel and the TranslatedKernel's module) and                        *)
(* translatedKernel.llvmFunction (line 946, the subkernel's base           *)
(* function).  Each is read as the entity in scope that it denotes.        *)
(*                                                                         *)
(* assert() is build dependent: with assertions compiled in, a failing     *)
(* assert ends the process (aborted); with NDEBUG it is skipped and the    *)
(* code after it runs.  ndebug is fixed at start-up.  A null pointer       *)
(* dereference faults and ends the process.                                *)
(***************************************************************************)
EXTENDS Integers, Sequences, FiniteSets, TLC

VARIABLES
    modules,             \* ModuleMap: module name -> ModuleMetadata
    kernels,             \* DynamicMulticoreKernel* -> TranslatedKernel*
    subkernelsToKernel,  \* SubkernelId -> TranslatedKernel*
    translationCache,    \* SubkernelId -> (warp size -> Translation*)
    tks,                 \* heap of TranslatedKernel objects, by id
    trs,                 \* heap of Translation objects, by id
    mds,                 \* heap of Metadata objects, by id
    jit,                 \* TranslatedKernels whose llvmModule is added to the JIT
    th,                  \* per thread: position and locals of its current call
    threads,             \* the threads that issue calls
    aborted,             \* the process has been ended (assert / fault)
    ndebug,              \* assertions are compiled out
    log,                 \* the record of the last completed call, if any
    registered,          \* kernels whose registerKernel returned normally
    translateCount,      \* per subkernel: invocations of translator.translate
    subkernelPtx,        \* the ir::PTXKernel the layout passes work on
    layout,              \* the size fields of its Metadata
    offsetTables,        \* the OffsetMap the last run of each pass built
    passesRun,           \* the layout passes applied to subkernelPtx so far
    padCall,             \* one call of pad: its arguments and what it left
    callTargets,         \* one call of setupCallTargets: the instructions it scans
    optimizer,           \* one call of cloneAndOptimizeTranslation: level and passes
    linker               \* one call of linkLLVMModule and the publication after it

cacheVars == <<modules, kernels, subkernelsToKernel, translationCache, tks, trs, mds,
               jit, th, threads, aborted, ndebug, log, registered,
               translateCount>>

stepVars == <<padCall, callTargets, optimizer, linker>>

layoutVars == <<subkernelPtx, layout, offsetTables, passesRun, padCall, callTargets,
                optimizer, linker>>

vars == <<modules, kernels, subkernelsToKernel, translationCache, tks, trs, mds,
          jit, th, threads, aborted, ndebug, log, registered,
          translateCount, subkernelPtx, layout, offsetTables, passesRun, padCall,
          callTargets, optimizer, linker>>

----------------------------------------------------------------------------
\* Bounds of the model.

\* TranslatedKernel and Translation objects allocated in a run, with one caller
\* and with two; the calls that allocate nothing need no bound
MaxObjects == 4
MaxObjectsMT == 3

----------------------------------------------------------------------------
\* The inputs the calls are drawn from.

Null == 0

\* the ir::Module objects passed to loadModule, and module->name of each: two
\* distinct modules carry the name "m1"
PtxModules == {"p1", "p2"}
ModuleName(p) == "m1"
Devices == {"d1"}
Kernels == {"k1"}
WarpWidths == {1, 2}
Specializations == {0, 1}
AllThreads == {1, 2}

\* kernel->module()->name
KernelModule(k) == "m1"

\* kernel->kernelGraph()->subkernels, a std::map iterated in key order
KernelSubkernels(k) == <<1, 2>>

SubkernelIds == {1, 2}

Keys == SubkernelIds \X WarpWidths

----------------------------------------------------------------------------
\* std::map helpers.

EmptyMap == <<>>

\* m[k] = v
MapPut(m, k, v) == [x \in (DOMAIN m) \cup {k} |-> IF x = k THEN v ELSE m[x]]

\* m.find(k), Null when absent
MapGet(m, k) == IF k \in DOMAIN m THEN m[k] ELSE Null

----------------------------------------------------------------------------
\* Heap objects.

\* ModuleMetadata as loadModule builds it; its kernels map starts empty
ModuleMetadata(p, d) == [ptxModule |-> p, device |-> d, kernels |-> EmptyMap]

\* TranslatedKernel::TranslatedKernel: a fresh llvm::Module, no subkernels
NewTranslatedKernel(k) ==
    [kernel |-> k, llvmModule |-> "live", functions |-> {},
     subkernels |-> EmptyMap, metadata |-> Null]

\* a default-constructed TranslatedSubkernel (std::map operator[] on a miss)
DefaultSubkernel ==
    [llvmFunction |-> Null, metadata |-> Null, translations |-> EmptyMap, steps |-> <<>>]

\* generateMetadata: warpSize defaults to 1
generateMetadataTwoWide(sk) == [kernel |-> sk, warpSize |-> 2, deleted |-> FALSE]

generateMetadata(sk) == [kernel |-> sk, warpSize |-> 1, deleted |-> FALSE]

\* new Translation; translation->metadata = subkernel.metadata
NewTranslation(sk, ws, tk, md) ==
    [key |-> <<sk, ws>>, tk |-> tk, metadata |-> md,
     llvmFunction |-> Null, function |-> Null, deleted |-> FALSE]

\* llvm::Function objects of a kernel's module: the base function of subkernel sk
\* is sk, the clone made for Translation trn is -trn (Null is neither)
BaseFunction(sk) == sk
CloneFunction(trn) == 0 - trn

\* the pointer jit()->getPointerToFunction returns for Translation trn
NativeEntry(trn) == trn

----------------------------------------------------------------------------
\* Threads.

Idle == [pc |-> "idle", op |-> "none", k |-> "none", sk |-> 0, ww |-> 0,
         tk |-> 0, trn |-> 0, todo |-> <<>>, envOk |-> TRUE, vfail |-> FALSE,
         hit |-> FALSE, module |-> "none", device |-> "none"]

\* the record of a completed call: res is "ok" or "exception", ret the value
\* returned, vfail whether a verifyModule of the call reported a failure, hit
\* whether the call found its key in translationCache, module and device the
\* arguments of a loadModule call
Completed(c, res, ret) ==
    [op |-> c.op, k |-> c.k, sk |-> c.sk, ww |-> c.ww,
     res |-> res, ret |-> ret, vfail |-> c.vfail, hit |-> c.hit,
     module |-> c.module, device |-> c.device]

Push(l, r) == <<r>>

\* a further TranslatedKernel or Translation may be allocated
CanAllocate ==
    Len(tks) + Len(trs) < (IF threads = {1} THEN MaxObjects ELSE MaxObjectsMT)

CanCall(t) == /\ ~aborted
              /\ t \in threads
              /\ th[t].pc = "idle"

----------------------------------------------------------------------------
\* Pieces of the operations.

StoreModuleIfAbsent(reg, name, md) ==
    IF name \in DOMAIN reg THEN reg ELSE [x \in (DOMAIN reg) \cup {name} |->
                                            IF x = name THEN md ELSE reg[x]]

\* loadModule: modules[module->name] = newModule
StoreModule(reg, name, md) == MapPut(reg, name, md)

\* the kernel a subkernel id belongs to
SubkernelKernel(sk) == "k1"

CacheFindMiss(cache, sk, ws) == Null

\* getOrInsertTranslation, the lookup: translationCache.find(subkernelId), then
\* find(warpsize) in the inner map
CacheFind(cache, sk, ws) ==
    IF sk \in DOMAIN cache THEN MapGet(cache[sk], ws) ELSE Null

\* translationCache[subkernelid][warpSize] = translation
CachePublishScalar(cache, sk, ws, trn) ==
    MapPut(cache, sk, MapPut(IF sk \in DOMAIN cache THEN cache[sk] ELSE EmptyMap, 1, trn))

\* translationCache[subkernelid][warpSize] = translation
CachePublish(cache, sk, ws, trn) ==
    MapPut(cache, sk, MapPut(IF sk \in DOMAIN cache THEN cache[sk] ELSE EmptyMap, ws, trn))

TranslationStepsLinked ==
    <<"optimizePTX", "generateMetadata", "setupPTXMemoryReferences", "setupCallTargets",
      "translate", "linkLLVMModule", "verifyModule">>

\* _translateKernel: what one iteration of its loop runs on a subkernel, in order,
\* before it records the subkernel in translatedKernel.subkernels
TranslationSteps ==
    <<"optimizePTX", "generateMetadata", "setupPTXMemoryReferences", "setupCallTargets",
      "translate", "assemble", "ParseAssemblyString">>

StayInCall(c) == c

\* return translation / throw: the caller is outside the call again
ReturnFrom(c) == Idle

MissedAlways(found) == TRUE

\* getOrInsertTranslation: if (!translation)
Missed(found) == found = Null

MetadataWithWarpSize(heap, md, ws) ==
    IF md = Null THEN heap ELSE [heap EXCEPT ![md].warpSize = ws]

\* _specializeTranslation: translation->metadata = subkernel.metadata shares the
\* subkernel's Metadata with the new Translation; the warp size is handed to
\* cloneAndOptimizeTranslation by value and the Metadata is not written
MetadataAfterSpecialization(heap, md, ws) == heap

DeleteTranslationLeak(heap, trn) == heap

\* delete translation
DeleteTranslation(heap, trn) == [heap EXCEPT ![trn].deleted = TRUE]

OnThrowFallThrough(o) == "next"

\* try { ... } catch(...): where control goes after a step of the try block with
\* outcome o, to the handler when the step threw and to the next statement otherwise
OnThrow(o) ==
    IF o \in {"optimizeThrow", "verifyFail", "linkThrow", "jitThrow"}
    THEN "catch" ELSE "next"

----------------------------------------------------------------------------
\* The layout passes of setupPTXMemoryReferences, on one subkernel.
\*
\* A subkernel is what the passes read and write of an ir::PTXKernel:
\*   arguments  kernel.arguments, each with name, getSize() and getAlignment()
\*   calls      its Call instructions in program order: the callee (a.identifier)
\*              and the operand arrays d and b, each entry with identifier and
\*              PTXOperand::bytes(type)
\*   functions  kernel.module->kernels(): whether function() holds, and the
\*              getSize() of each declared argument
\*   globals    kernel.module->globals() in iteration order: name, directive,
\*              whether the attribute is Extern, alignment, bytes() and
\*              PTXOperand::bytes(type)
\*   locals     kernel.locals in iteration order: name, space, whether the
\*              attribute is Extern, alignment, getSize() and PTXOperand::bytes(type)
\*   tex        the a operands of its Tex instructions in program order:
\*              identifier and reg
\*   registry   the texture names device->getTextureReference finds for the module
\*   operands   the operands in Address mode of its instructions, one for each
\*              instruction: the instruction's opcode and addressSpace, the
\*              operand's identifier, offset and isArgument; original keeps
\*              the offset the operand had before any pass

\* times setupPTXMemoryReferences is applied to the same subkernel
MaxLayoutRuns == 2
\* lengths of the argument list and of the list of call instructions
MaxArguments == 2
MaxCalls == 2
\* lengths of the lists of module globals, of locals and of Tex instructions
MaxGlobals == 2
MaxLocals == 3
MaxTex == 3
\* length of the list of instructions setupCallTargets scans
MaxCallInstructions == 2
\* largest warp size cloneAndOptimizeTranslation is called with
MaxWarpSize == 8
\* length of the list of module globals linkLLVMModule visits
MaxLinkGlobals == 2
\* bits of an unsigned int, scaled down from 32; sizes and offsets are unsigned int
UnsignedBits == 6
\* largest alignment pad is called with
MaxAlignment == 8

\* one more than the largest unsigned int
UnsignedLimit == 2 ^ UnsignedBits

\* (getSize(), getAlignment()) of an argument: an int, a double, three ints
ArgumentTypes == {<<4, 4>>, <<8, 8>>, <<12, 4>>}

ArgumentNames == <<"a1", "a2", "a3", "a4">>

ArgumentLists ==
    UNION {[1..n -> ArgumentTypes] : n \in 0..MaxArguments}

\* kernel.arguments for a list of types: the i-th argument is named ArgumentNames[i]
Arguments(types) ==
    [i \in DOMAIN types |-> [name |-> ArgumentNames[i], size |-> types[i][1],
                             alignment |-> types[i][2]]]

ParamX == [identifier |-> "x", bytes |-> 4]
ParamY == [identifier |-> "y", bytes |-> 8]

DivergenceMarker == "ptx.warp.divergent"

CallSites ==
    {[callee |-> "f", d |-> <<>>, b |-> <<>>],
     [callee |-> "f", d |-> <<>>, b |-> <<ParamX>>],
     [callee |-> "f", d |-> <<>>, b |-> <<ParamX, ParamY>>],
     [callee |-> "f", d |-> <<ParamY>>, b |-> <<ParamX>>],
     [callee |-> DivergenceMarker, d |-> <<>>, b |-> <<ParamX, ParamY>>]}

CallLists == UNION {[1..n -> CallSites] : n \in 0..MaxCalls}

\* the kernels of the module: none, one that is or is not a function, or two
ModuleKernels ==
    {<<>>,
     <<[function |-> TRUE, arguments |-> <<4, 8>>]>>,
     <<[function |-> TRUE, arguments |-> <<8, 8, 8>>]>>,
     <<[function |-> FALSE, arguments |-> <<8, 8, 8>>]>>,
     <<[function |-> TRUE, arguments |-> <<4, 8>>],
       [function |-> TRUE, arguments |-> <<8, 8, 8>>]>>,
     <<[function |-> FALSE, arguments |-> <<8, 8, 8>>],
       [function |-> TRUE, arguments |-> <<4, 8>>]>>}

\* one instruction with an operand in Address mode, as the parser leaves it
Operand(opcode, id, off) ==
    [opcode |-> opcode, identifier |-> id, offset |-> off, isArgument |-> FALSE,
     addressSpace |-> "unspecified", original |-> off]

OperandLists(opcodes, ids) ==
    {<<Operand(opcode, id, off)>> : opcode \in opcodes, id \in ids, off \in {0, 4}}

\* a statement of the module: .shared, .const or .global, extern or not
Global(name, directive, extern, alignment, bytes, elementBytes) ==
    [name |-> name, directive |-> directive, extern |-> extern,
     alignment |-> alignment, bytes |-> bytes, elementBytes |-> elementBytes]

GlobalStatements ==
    {Global("g1", "shared", FALSE, 4, 4, 4),
     Global("g2", "shared", FALSE, 8, 24, 8),
     Global("e1", "shared", TRUE, 1, 0, 4),
     Global("e2", "shared", TRUE, 16, 0, 8),
     Global("c1", "const", FALSE, 4, 12, 4),
     Global("c2", "const", FALSE, 8, 8, 8),
     Global("gg", "global", FALSE, 4, 4, 4)}

\* a variable declared in the kernel
Local(name, space, extern, alignment, size, elementBytes) ==
    [name |-> name, space |-> space, extern |-> extern, alignment |-> alignment,
     size |-> size, elementBytes |-> elementBytes]

BarrierName == "_Zocelot_barrier_next_kernel"
ResumeStatusName == "_Zocelot_resume_status"
ResumePointName == "_Zocelot_resume_point"
SpillAreaName == "_Zocelot_spill_area"

\* sizeof(int)
SizeofInt == 4

\* the locals of a kernel that declares shared variables
SharedLocals ==
    {Local("s1", "shared", FALSE, 4, 12, 4),
     Local("e1", "shared", TRUE, 4, 0, 4),
     Local("e3", "shared", TRUE, 8, 0, 2)}

\* the locals of a kernel that declares local variables
LocalLocals ==
    {Local(BarrierName, "local", FALSE, 8, 8, 8),
     Local(BarrierName, "shared", FALSE, 8, 8, 8),
     Local(SpillAreaName, "local", FALSE, 8, 8, 8),
     Local("l1", "local", FALSE, 4, 4, 4),
     Local("l2", "local", FALSE, 16, 16, 4),
     Local("s1", "shared", FALSE, 4, 12, 4)}

\* the lists of at most n entries of S with no name twice: a map in iteration order
NamedLists(S, n) ==
    {l \in UNION {[1..k -> S] : k \in 0..n} :
        \A i, j \in DOMAIN l : i # j => l[i].name # l[j].name}

TextureNames == {"t1", "t2"}

TexLists ==
    UNION {[1..n -> [identifier : TextureNames, reg : {0}]] : n \in 0..MaxTex}

NoPtx ==
    [arguments |-> <<>>, calls |-> <<>>, functions |-> <<>>, operands |-> <<>>,
     globals |-> <<>>, locals |-> <<>>, tex |-> <<>>, registry |-> {}]

PassOrderLocalBeforeTexture ==
    <<"global", "argument", "parameter", "shared", "constant", "local", "texture">>

\* the order in which setupPTXMemoryReferences applies the passes
PassOrder ==
    <<"global", "argument", "parameter", "shared", "constant", "texture", "local">>

\* the pass that runs next
NextPass == PassOrder[(Len(passesRun) % Len(PassOrder)) + 1]

PaddedNone(size, alignment) == size

padKeepFull(size, alignment) == alignment - (size % alignment)

\* pad(size, alignment): the padding it returns
pad(size, alignment) ==
    LET padding == alignment - (size % alignment)
    IN IF alignment = padding THEN 0 ELSE padding

\* pad(size, alignment): the value it leaves in size, size += padding on
\* unsigned int
Padded(size, alignment) == (size + pad(size, alignment)) % UnsignedLimit

\* offsets.insert(std::make_pair(name, offset)): an existing entry is kept
MapInsert(m, k, v) == IF k \in DOMAIN m THEN m ELSE MapPut(m, k, v)

\* setupArgumentMemoryReferences, the loop over kernel.arguments: the running
\* offset and the OffsetMap after the arguments left to do
RECURSIVE LayoutArguments(_, _, _)
LayoutArguments(todo, offset, offsets) ==
    IF todo = <<>>
    THEN [offset |-> offset, offsets |-> offsets]
    ELSE LET at == Padded(offset, Head(todo).alignment)
         IN LayoutArguments(Tail(todo), at + Head(todo).size,
                            MapInsert(offsets, Head(todo).name, at))

\* the loop over the instructions' operands, common to the passes:
\* operands[i]->offset += entry->second; operands[i]->isArgument = flag
RewriteOperands(operands, offsets, flag) ==
    [i \in DOMAIN operands |->
        IF /\ operands[i].opcode \in {"Mov", "Ld", "St"}
           /\ operands[i].identifier \in DOMAIN offsets
        THEN [operands[i] EXCEPT !.offset = @ + offsets[operands[i].identifier],
                                 !.isArgument = flag]
        ELSE operands[i]]

NeverMarker(call) == FALSE

\* if (ptx.a.identifier == "ptx.warp.divergent") continue;
IsDivergenceMarker(call) == call.callee = DivergenceMarker

\* setupParameterMemoryReferences, one operand array of a call: running offset,
\* OffsetMap, and whether assert(offsets.count(identifier) == 0) failed
RECURSIVE LayoutArray(_, _)
LayoutArray(todo, acc) ==
    IF todo = <<>>
    THEN acc
    ELSE LET at == Padded(acc.offset, Head(todo).bytes)
         IN LayoutArray(Tail(todo),
                        [offset |-> at + Head(todo).bytes,
                         offsets |-> MapInsert(acc.offsets, Head(todo).identifier, at),
                         clash |-> acc.clash \/ Head(todo).identifier \in DOMAIN acc.offsets,
                         size |-> acc.size])

\* setupParameterMemoryReferences, the loop over the call instructions
RECURSIVE LayoutCalls(_, _)
LayoutCalls(todo, acc) ==
    IF todo = <<>>
    THEN acc
    ELSE IF IsDivergenceMarker(Head(todo))
    THEN LayoutCalls(Tail(todo), acc)
    ELSE LET call == LayoutArray(Head(todo).b,
                        LayoutArray(Head(todo).d, [acc EXCEPT !.offset = 0]))
         IN LayoutCalls(Tail(todo),
                        [call EXCEPT !.size = IF call.offset > acc.size
                                              THEN call.offset ELSE acc.size])

\* the loop over a module function's declared arguments:
\* pad(bytes, argument->getSize()); bytes += argument->getSize()
RECURSIVE FunctionBytes(_, _)
FunctionBytes(todo, bytes) ==
    IF todo = <<>>
    THEN bytes
    ELSE FunctionBytes(Tail(todo), Padded(bytes, Head(todo)) + Head(todo))

AnyKernel(kernel) == TRUE

\* function->second->function()
IsFunction(kernel) == kernel.function

\* the loop over kernel.module->kernels(): parameterSize after the kernels left
RECURSIVE LayoutFunctions(_, _)
LayoutFunctions(todo, size) ==
    IF todo = <<>>
    THEN size
    ELSE IF ~IsFunction(Head(todo))
    THEN LayoutFunctions(Tail(todo), size)
    ELSE LET bytes == FunctionBytes(Head(todo).arguments, 0)
         IN LayoutFunctions(Tail(todo), IF bytes > size THEN bytes ELSE size)

\* setupGlobalMemoryReferences: a Mov whose a operand names a .global statement
\* of the module gets ptx.addressSpace = Global
MarkGlobals(operands, globals) ==
    [i \in DOMAIN operands |->
        IF /\ operands[i].opcode = "Mov"
           /\ \E g \in DOMAIN globals :
                 /\ globals[g].name = operands[i].identifier
                 /\ globals[g].directive = "global"
        THEN [operands[i] EXCEPT !.addressSpace = "global"]
        ELSE operands[i]]

\* the loop over the instructions' operands of the shared, constant and local
\* passes: ptx.addressSpace = space; operands[i]->offset += entry->second.
\* An operand in skip is left alone (the shared pass: continue)
PlaceOperands(operands, opcodes, offsets, skip, space) ==
    [i \in DOMAIN operands |->
        IF /\ operands[i].opcode \in opcodes
           /\ operands[i].identifier \notin skip
           /\ operands[i].identifier \in DOMAIN offsets
        THEN [operands[i] EXCEPT !.offset = @ + offsets[operands[i].identifier],
                                 !.addressSpace = space]
        ELSE operands[i]]

KeepOperands(operands, external, sharedSize) == operands

\* the second loop of the shared pass, over externalOperands:
\* (*operand)->offset += metadata->sharedSize
PlaceExternalOperands(operands, external, sharedSize) ==
    [i \in DOMAIN operands |->
        IF /\ operands[i].opcode \in {"Mov", "Ld", "St", "Cvta"}
           /\ operands[i].identifier \in external
        THEN [operands[i] EXCEPT !.offset = @ + sharedSize]
        ELSE operands[i]]

Max(a, b) == IF a > b THEN a ELSE b

\* the shared statements of the module, then the shared locals of the kernel,
\* in the order the two loops of the shared pass visit them
SharedDeclarations(ptx) ==
    LET globals == SelectSeq(ptx.globals, LAMBDA g : g.directive = "shared")
        locals == SelectSeq(ptx.locals, LAMBDA l : l.space = "shared")
    IN [i \in DOMAIN globals |->
           [name |-> globals[i].name, extern |-> globals[i].extern,
            alignment |-> globals[i].alignment, bytes |-> globals[i].bytes,
            elementBytes |-> globals[i].elementBytes]]
       \o [i \in DOMAIN locals |->
             [name |-> locals[i].name, extern |-> locals[i].extern,
              alignment |-> locals[i].alignment, bytes |-> locals[i].size,
              elementBytes |-> locals[i].elementBytes]]

\* setupSharedMemoryReferences, the loops over the globals and the locals: an
\* external variable is noted and raises externalAlignment, any other is padded
\* to its alignment and placed; clash is whether
\* assert(external.count(name) == 0) failed
RECURSIVE LayoutShared(_, _)
LayoutShared(todo, acc) ==
    IF todo = <<>>
    THEN acc
    ELSE LET v == Head(todo)
             at == Padded(acc.size, v.alignment)
         IN IF v.extern
            THEN LayoutShared(Tail(todo),
                     [acc EXCEPT !.external = @ \cup {v.name},
                                 !.externalAlignment =
                                     Max(Max(@, v.alignment), v.elementBytes),
                                 !.clash = @ \/ v.name \in acc.external])
            ELSE LayoutShared(Tail(todo),
                     [acc EXCEPT !.size = at + v.bytes,
                                 !.offsets = MapInsert(@, v.name, at)])

\* setupConstantMemoryReferences, the loop over the globals
RECURSIVE LayoutConstants(_, _)
LayoutConstants(todo, acc) ==
    IF todo = <<>>
    THEN acc
    ELSE IF Head(todo).directive # "const"
    THEN LayoutConstants(Tail(todo), acc)
    ELSE LET at == Padded(acc.size, Head(todo).alignment)
         IN LayoutConstants(Tail(todo),
                [size |-> at + Head(todo).bytes,
                 offsets |-> MapInsert(acc.offsets, Head(todo).name, at)])

\* kernel.locals.find(name): the local of that name, in a list of none or one
FindLocal(locals, name) == SelectSeq(locals, LAMBDA l : l.name = name)

\* setupLocalMemoryReferences: pad(localSize, alignment); insert; localSize += size
PlaceLocalOnTop(acc, name, alignment, size) ==
    [size |-> Max(acc.size, size), offsets |-> MapInsert(acc.offsets, name, 0)]

\* setupLocalMemoryReferences: pad(localSize, alignment); insert; localSize += size
PlaceLocal(acc, name, alignment, size) ==
    LET at == Padded(acc.size, alignment)
    IN [size |-> at + size, offsets |-> MapInsert(acc.offsets, name, at)]

\* the locals of the list that are in the local space, placed in order
RECURSIVE PlaceLocals(_, _)
PlaceLocals(todo, acc) ==
    IF todo = <<>>
    THEN acc
    ELSE IF Head(todo).space # "local"
    THEN PlaceLocals(Tail(todo), acc)
    ELSE PlaceLocals(Tail(todo),
             PlaceLocal(acc, Head(todo).name, Head(todo).alignment, Head(todo).size))

SpillAreaFirst ==
    <<"barrier", "status", "point", "spill", "ordinary">>

OrdinaryLocalsFirst ==
    <<"ordinary", "barrier", "status", "point", "spill">>

\* setupLocalMemoryReferences places, in this order: the barrier-resume local,
\* the resume status, the resume point, the ordinary locals, the spill area
LocalOrder ==
    <<"barrier", "status", "point", "ordinary", "spill">>

\* setupLocalMemoryReferences: one of its five placements
LayoutLocalStep(step, locals, acc) ==
    CASE step = "barrier" -> PlaceLocals(FindLocal(locals, BarrierName), acc)
      [] step = "status" -> PlaceLocal(acc, ResumeStatusName, SizeofInt, SizeofInt)
      [] step = "point" -> PlaceLocal(acc, ResumePointName, SizeofInt, SizeofInt)
      [] step = "ordinary" ->
            PlaceLocals(SelectSeq(locals, LAMBDA l :
                            l.name \notin {BarrierName, SpillAreaName,
                                           ResumePointName, ResumeStatusName}), acc)
      [] step = "spill" -> PlaceLocals(FindLocal(locals, SpillAreaName), acc)

\* setupLocalMemoryReferences, up to the loop over the instructions
RECURSIVE LayoutLocals(_, _, _)
LayoutLocals(steps, locals, acc) ==
    IF steps = <<>>
    THEN acc
    ELSE LayoutLocals(Tail(steps), locals, LayoutLocalStep(Head(steps), locals, acc))

\* setupTextureMemoryReferences, the loop over the Tex instructions: the
\* instructions done, the TextureMap, metadata->textures, the names
\* getTextureReference was asked for, and whether assert(texture != 0) failed
RECURSIVE LayoutTextures(_, _)
LayoutTextures(todo, acc) ==
    IF todo = <<>>
    THEN acc
    ELSE LET id == Head(todo).identifier
         IN IF id \in DOMAIN acc.slots
            THEN LayoutTextures(Tail(todo),
                     [acc EXCEPT !.tex = Append(@, [Head(todo) EXCEPT
                                                       !.reg = acc.slots[id]])])
            ELSE LayoutTextures(Tail(todo),
                     [acc EXCEPT
                         !.tex = Append(@, [Head(todo) EXCEPT
                                               !.reg = Cardinality(DOMAIN acc.slots)]),
                         !.slots = MapPut(@, id, Cardinality(DOMAIN acc.slots)),
                         !.queries = Append(@, id),
                         !.textures = Append(@, IF id \in acc.registry
                                                THEN id ELSE "null"),
                         !.clash = @ \/ id \notin acc.registry])

\* no call of pad has been made
NoPadCall == [size |-> 0, alignment |-> 1, before |-> 0, padding |-> 0, returned |-> FALSE]

\* the fields of a Metadata the passes write, as generateMetadata leaves them;
\* queries lists the names getTextureReference was called with
NoLayout ==
    [argumentSize |-> 0, parameterSize |-> 0, sharedSize |-> 0, constantSize |-> 0,
     localSize |-> 0, textures |-> <<>>, queries |-> <<>>]

\* no pass has built an OffsetMap; external is the StringSet of the shared pass
\* and externalAlignment its alignment of the external shared variables
NoOffsetTables ==
    [argument |-> EmptyMap, parameter |-> EmptyMap, shared |-> EmptyMap,
     external |-> {}, externalAlignment |-> 1, constant |-> EmptyMap,
     texture |-> EmptyMap, local |-> EmptyMap]

\* no call of setupCallTargets has been made
NoCallTargets == [instructions |-> <<>>, done |-> FALSE]

\* no call of cloneAndOptimizeTranslation has been made
NoOptimizer ==
    [optimization |-> "NoOptimization", warpSize |-> 1, level |-> 0, space |-> FALSE,
     passes |-> <<>>, done |-> FALSE]

\* no call of linkLLVMModule has been made
NoLinker == [globals |-> <<>>, bound |-> {}, pc |-> "none"]

\* no subkernel is under layout
NoSubkernel ==
    /\ subkernelPtx = NoPtx
    /\ layout = NoLayout
    /\ offsetTables = NoOffsetTables
    /\ passesRun = <<>>

\* no subkernel is under layout and no step is followed on its own
InitNoLayout ==
    /\ NoSubkernel
    /\ padCall = NoPadCall
    /\ callTargets = NoCallTargets
    /\ optimizer = NoOptimizer
    /\ linker = NoLinker

----------------------------------------------------------------------------
\* Initial state: DynamicTranslationCache::DynamicTranslationCache leaves every
\* map empty.

InitCache ==
    /\ modules = EmptyMap
    /\ kernels = EmptyMap
    /\ subkernelsToKernel = EmptyMap
    /\ translationCache = EmptyMap
    /\ tks = <<>>
    /\ trs = <<>>
    /\ mds = <<>>
    /\ jit = {}
    /\ th = [t \in AllThreads |-> Idle]
    /\ aborted = FALSE
    /\ ndebug \in BOOLEAN
    /\ log = <<>>
    /\ registered = {}
    /\ translateCount = [sk \in SubkernelIds |-> 0]

\* one caller
Init == InitCache /\ threads = {1} /\ InitNoLayout

\* two callers
InitMT == InitCache /\ threads = AllThreads /\ InitNoLayout

\* the process ends inside thread t's call
Abort(t) ==
    /\ UNCHANGED layoutVars
    /\ aborted' = TRUE
    /\ th' = [th EXCEPT ![t].pc = "aborted"]
    /\ UNCHANGED <<modules, kernels, subkernelsToKernel, translationCache, tks, trs,
                   mds, jit, threads, ndebug, log, registered, translateCount>>

\* the same, on a failure reported by the backend or the device
AbortEnv(t) ==
    /\ UNCHANGED layoutVars
    /\ aborted' = TRUE
    /\ th' = [th EXCEPT ![t].pc = "aborted", ![t].envOk = FALSE]
    /\ UNCHANGED <<modules, kernels, subkernelsToKernel, translationCache, tks, trs,
                   mds, jit, threads, ndebug, log, registered, translateCount>>

----------------------------------------------------------------------------
\* loadModule(module, device): modules[module->name] = newModule; return true

loadModule(t, p, d) ==
    /\ UNCHANGED layoutVars
    /\ CanCall(t)
    /\ modules' = StoreModule(modules, ModuleName(p), ModuleMetadata(p, d))
    /\ log' = Push(log, Completed([Idle EXCEPT !.op = "loadModule", !.k = ModuleName(p),
                                                !.module = p, !.device = d],
                                  "ok", 1))
    /\ UNCHANGED <<kernels, subkernelsToKernel, translationCache, tks, trs, mds, jit,
                   th, threads, aborted, ndebug, registered, translateCount>>

----------------------------------------------------------------------------
\* registerKernel(kernel), up to the call of _translateKernel.
\* ub is what reading through modules.end() yields when the assert is compiled
\* out: a fault, or a ModuleMetadata whose kernels map does or does not seem to
\* hold the kernel.

EndIteratorReads == {"fault", "notfound", "found"}

\* module.kernels.find(kernel->name) != module.kernels.end()
KernelKnown(m, k, ub) ==
    IF m \in DOMAIN modules THEN k \in DOMAIN modules[m].kernels ELSE ub = "found"

registerKernel(t, k, ub) ==
    /\ UNCHANGED layoutVars
    /\ CanCall(t)
    /\ LET m == KernelModule(k)
           call == [Idle EXCEPT !.op = "registerKernel", !.k = k]
       IN
       IF m \notin DOMAIN modules /\ (~ndebug \/ ub = "fault")
       THEN \* assert(module_it != modules.end())
            /\ aborted' = TRUE
            /\ th' = [th EXCEPT ![t] = [call EXCEPT !.pc = "aborted"]]
            /\ UNCHANGED <<kernels, tks, log>>
       ELSE IF KernelKnown(m, k, ub)
       THEN \* do nothing.
            /\ log' = Push(log, Completed(call, "ok", Null))
            /\ UNCHANGED <<kernels, tks, th, aborted>>
       ELSE \* new TranslatedKernel(kernel); kernels[kernel] = translatedKernel
            /\ CanAllocate
            /\ tks' = Append(tks, NewTranslatedKernel(k))
            /\ kernels' = MapPut(kernels, k, Len(tks) + 1)
            /\ th' = [th EXCEPT ![t] = [call EXCEPT !.pc = "translate",
                                                   !.tk = Len(tks) + 1,
                                                   !.todo = KernelSubkernels(k)]]
            /\ UNCHANGED <<log, aborted>>
    /\ UNCHANGED <<modules, subkernelsToKernel, translationCache, trs, mds, jit,
                   threads, ndebug, registered, translateCount>>

----------------------------------------------------------------------------
\* _translateKernel: one iteration of the loop over the kernel's subkernels.
\* o is what the iteration meets: a failing assert of a layout pass or of
\* setupCallTargets, an exception of translator.translate, a failure of
\* llvm::ParseAssemblyString, or none of these.

TranslateOutcomes == {"ok", "layoutAssert", "callTargetAssert", "translateThrow",
                      "parseThrow"}

Asserts == {"layoutAssert", "callTargetAssert"}

Throws == {"translateThrow", "parseThrow"}

translateKernel(t, o) ==
    /\ UNCHANGED layoutVars
    /\ ~aborted
    /\ t \in threads
    /\ th[t].pc = "translate"
    /\ LET c == th[t]
           sk == Head(c.todo)
           md == Len(mds) + 1
       IN
       IF (o \in Asserts /\ ~ndebug) \/ tks[c.tk].llvmModule = "null"
       THEN Abort(t)
       ELSE
       \* subkernelsToKernel[subkernel_it->first] = &translatedKernel
       /\ subkernelsToKernel' = MapPut(subkernelsToKernel, sk, c.tk)
       /\ translateCount' = [translateCount EXCEPT ![sk] = @ + 1]
       /\ IF o \in Throws
          THEN \* catch(...) { delete metadata; throw; }
               /\ mds' = Append(mds, [generateMetadata(sk) EXCEPT !.deleted = TRUE])
               /\ th' = [th EXCEPT ![t] = Idle]
               /\ log' = Push(log, Completed(c, "exception", Null))
               /\ UNCHANGED <<tks, registered>>
          ELSE /\ mds' = Append(mds, generateMetadata(sk))
               /\ tks' = [tks EXCEPT ![c.tk] =
                            [@ EXCEPT !.subkernels =
                                        MapPut(@, sk, [llvmFunction |-> BaseFunction(sk),
                                                       metadata |-> md,
                                                       translations |-> EmptyMap,
                                                       steps |-> TranslationSteps]),
                                      !.functions = @ \cup {BaseFunction(sk)},
                                      !.metadata = md]]
               /\ IF Len(c.todo) = 1
                  THEN \* the loop ends; registerKernel returns
                       /\ th' = [th EXCEPT ![t] = Idle]
                       /\ log' = Push(log, Completed(c, "ok", Null))
                       /\ registered' = registered \cup {c.k}
                  ELSE /\ th' = [th EXCEPT ![t].todo = Tail(c.todo)]
                       /\ UNCHANGED <<log, registered>>
       /\ UNCHANGED <<modules, kernels, translationCache, trs, jit, threads, aborted,
                      ndebug>>

----------------------------------------------------------------------------
\* getOrInsertTranslation(warpsize, subkernelId, specialization): the lookup and,
\* on a miss, the entry of _specializeTranslation up to its try block
\* (new Translation; translation->metadata = subkernel.metadata).
\* The specialization argument is handed on and never read.

getOrInsertTranslation(t, ws, sk, sp) ==
    /\ UNCHANGED layoutVars
    /\ CanCall(t)
    /\ LET found == CacheFind(translationCache, sk, ws)
           call == [Idle EXCEPT !.op = "getOrInsertTranslation", !.sk = sk, !.ww = ws,
                                !.hit = (found # Null)]
           tk == MapGet(subkernelsToKernel, sk)
       IN
       IF ~Missed(found)
       THEN \* found in translation cache
            /\ log' = Push(log, Completed(call, "ok", found))
            /\ UNCHANGED <<subkernelsToKernel, tks, trs, mds, th, aborted>>
       ELSE IF tk = Null
       THEN \* *subkernelsToKernel[subkernelId]: operator[] inserts a null pointer,
            \* which _specializeTranslation then reads through
            /\ subkernelsToKernel' = MapPut(subkernelsToKernel, sk, Null)
            /\ aborted' = TRUE
            /\ th' = [th EXCEPT ![t] = [call EXCEPT !.pc = "aborted"]]
            /\ UNCHANGED <<tks, trs, mds, log>>
       ELSE LET subkernel == IF sk \in DOMAIN tks[tk].subkernels
                             THEN tks[tk].subkernels[sk] ELSE DefaultSubkernel
            IN
            \* TranslatedSubkernel &subkernel = translatedKernel.subkernels[subkernelId]
            /\ CanAllocate
            /\ tks' = [tks EXCEPT ![tk].subkernels = MapPut(@, sk, subkernel)]
            /\ trs' = Append(trs, NewTranslation(sk, ws, tk, subkernel.metadata))
            /\ mds' = MetadataAfterSpecialization(mds, subkernel.metadata, ws)
            /\ th' = [th EXCEPT ![t] = [call EXCEPT !.pc = "clone", !.tk = tk,
                                                   !.trn = Len(trs) + 1]]
            /\ UNCHANGED <<subkernelsToKernel, log, aborted>>
    /\ UNCHANGED <<modules, kernels, translationCache, jit, threads, ndebug,
                   registered, translateCount>>

----------------------------------------------------------------------------
\* _specializeTranslation, the handler:
\* catch(...) { jit()->removeModule(llvmModule); delete translation; throw; }
\* as the state it leaves; removeModule(0) finds no module to remove.

CatchJit(j, tk, llvmModule) == IF llvmModule = "null" THEN j ELSE j \ {tk}

----------------------------------------------------------------------------
\* cloneAndOptimizeTranslation (line 1172): clone the base function into the
\* kernel's module, run the pass manager, verify the module.
\* o: the pass manager throws, llvm::verifyModule reports a failure, or neither.
\* An exception leaves through the handler of _specializeTranslation.

CloneOutcomes == {"ok", "optimizeThrow", "verifyFail"}

cloneAndOptimizeTranslation(t, o) ==
    /\ UNCHANGED layoutVars
    /\ ~aborted
    /\ t \in threads
    /\ th[t].pc = "clone"
    /\ LET c == th[t]
           tk == tks[c.tk]
           \* delete translatedKernel.llvmModule; translatedKernel.llvmModule = 0
           module == IF o = "verifyFail" THEN "null" ELSE "live"
           cloned == [trs EXCEPT ![c.trn].llvmFunction = CloneFunction(c.trn)]
       IN
       IF \/ tk.llvmModule = "null"
          \/ tk.subkernels[c.sk].llvmFunction = Null
       THEN \* llvm::CloneFunction(0), llvmModule->getFunctionList() on a null module
            Abort(t)
       ELSE IF o = "verifyFail" /\ ~ndebug
       THEN \* assert(0 && "quitting")
            AbortEnv(t)
       ELSE
       /\ tks' = [tks EXCEPT ![c.tk].llvmModule = module,
                             ![c.tk].functions = IF module = "null" THEN {}
                                                 ELSE @ \cup {CloneFunction(c.trn)}]
       /\ IF OnThrow(o) = "catch"
          THEN /\ jit' = CatchJit(jit, c.tk, module)
               /\ trs' = DeleteTranslation(cloned, c.trn)
               /\ th' = [th EXCEPT ![t] = Idle]
               /\ log' = Push(log, Completed([c EXCEPT !.vfail = (o = "verifyFail")],
                                             "exception", Null))
          ELSE /\ trs' = cloned
               /\ th' = [th EXCEPT ![t].pc = "jit", ![t].envOk = (o = "ok"),
                                   ![t].vfail = (o = "verifyFail")]
               /\ UNCHANGED <<jit, log>>
       /\ UNCHANGED <<modules, kernels, subkernelsToKernel, translationCache, mds,
                      threads, aborted, ndebug, registered, translateCount>>

----------------------------------------------------------------------------
\* _specializeTranslation, lines 1180-1208: jit()->addModule, linkLLVMModule,
\* jit()->getPointerToFunction, then llvm::verifyModule once more (a failure is
\* only written to std::cerr), then the Translation is stored in the subkernel's
\* table and in translationCache and returned.
\* o: a global of the module has no device allocation, linking throws, the JIT
\* throws, or none of these; ver: what the second verifyModule reports.

JitOutcomes == {"ok", "linkMissing", "linkThrow", "jitThrow"}

VerifyOutcomes == {"ok", "fail"}

jitAndPublish(t, o, ver) ==
    /\ UNCHANGED layoutVars
    /\ ~aborted
    /\ t \in threads
    /\ th[t].pc = "jit"
    /\ LET c == th[t]
       IN
       IF tks[c.tk].llvmModule = "null"
       THEN Abort(t)
       ELSE IF o = "linkMissing"
       THEN \* assert(allocation != 0), or allocation->pointer() through a null pointer
            AbortEnv(t)
       ELSE
       /\ IF OnThrow(o) = "catch"
          THEN \* addModule, then the handler
               /\ jit' = CatchJit(jit \cup {c.tk}, c.tk, "live")
               /\ trs' = DeleteTranslation(trs, c.trn)
               /\ log' = Push(log, Completed(c, "exception", Null))
               /\ UNCHANGED <<tks, translationCache>>
          ELSE /\ jit' = jit \cup {c.tk}
               /\ trs' = [trs EXCEPT ![c.trn].function =
                                        IF o = "ok" THEN NativeEntry(c.trn) ELSE Null]
               \* subkernel.translations[warpSize] = translation
               /\ tks' = [tks EXCEPT ![c.tk].subkernels[c.sk].translations =
                                        MapPut(@, c.ww, c.trn)]
               /\ translationCache' = CachePublish(translationCache, c.sk, c.ww, c.trn)
               /\ log' = Push(log, Completed([c EXCEPT !.vfail = @ \/ (ver = "fail")],
                                             "ok", c.trn))
       /\ th' = [th EXCEPT ![t] = ReturnFrom(th[t])]
       /\ UNCHANGED <<modules, kernels, subkernelsToKernel, mds, threads, aborted,
                      ndebug, registered, translateCount>>

----------------------------------------------------------------------------

Next ==
    \E t \in AllThreads :
        \/ \E p \in PtxModules, d \in Devices : loadModule(t, p, d)
        \/ \E k \in Kernels, ub \in EndIteratorReads : registerKernel(t, k, ub)
        \/ \E o \in TranslateOutcomes : translateKernel(t, o)
        \/ \E ws \in WarpWidths, sk \in SubkernelIds, sp \in Specializations :
               getOrInsertTranslation(t, ws, sk, sp)
        \/ \E o \in CloneOutcomes : cloneAndOptimizeTranslation(t, o)
        \/ \E o \in JitOutcomes, ver \in VerifyOutcomes : jitAndPublish(t, o, ver)

\* one caller: the operations run one after another
Spec == Init /\ [][Next]_vars

\* two callers, interleaved at the steps above
SpecMT == InitMT /\ [][Next]_vars

\* A caller inside registerKernel or getOrInsertTranslation keeps executing: the
\* loops of _translateKernel and the statements of _specializeTranslation wait
\* for nothing, and each backend step they invoke returns.
Progress ==
    \E t \in AllThreads :
        \/ \E o \in TranslateOutcomes : translateKernel(t, o)
        \/ \E o \in CloneOutcomes : cloneAndOptimizeTranslation(t, o)
        \/ \E o \in JitOutcomes, ver \in VerifyOutcomes : jitAndPublish(t, o, ver)

SpecLive == Init /\ [][Next]_vars /\ WF_vars(Progress)

----------------------------------------------------------------------------
\* The layout passes as a state machine: a subkernel fresh from the parser, to
\* which setupPTXMemoryReferences is applied pass by pass; a further
\* registerKernel of its kernel applies the passes to the same subkernel again.

\* The subkernels the passes are applied to. Each exercises one region: its
\* arguments, its calls, the module's variables, its locals or its textures.
ArgumentInputs ==
    {[NoPtx EXCEPT !.arguments = Arguments(types), !.operands = ops] :
        types \in ArgumentLists, ops \in OperandLists({"Ld"}, {"a2", "x"})}

CallInputs ==
    {[NoPtx EXCEPT !.calls = calls, !.functions = fns, !.operands = ops] :
        calls \in CallLists, fns \in ModuleKernels,
        ops \in OperandLists({"Ld"}, {"x", "y"})}

GlobalInputs ==
    {[NoPtx EXCEPT !.globals = globals, !.locals = locals, !.operands = ops] :
        globals \in NamedLists(GlobalStatements, MaxGlobals),
        locals \in NamedLists(SharedLocals, 1),
        ops \in OperandLists({"Mov"}, {"g2", "e1", "e2", "c2", "gg"})
                 \cup OperandLists({"Cvta"}, {"g2"})}

LocalInputs ==
    {[NoPtx EXCEPT !.locals = locals, !.operands = ops] :
        locals \in NamedLists(LocalLocals, MaxLocals),
        ops \in OperandLists({"St"}, {"l1", SpillAreaName, ResumePointName})}

TextureInputs ==
    {[NoPtx EXCEPT !.tex = tex, !.registry = registry] :
        tex \in TexLists, registry \in SUBSET TextureNames}

\* a kernel of two arguments a1 and a2 that may pass a parameter named a2 to a
\* call and whose module may declare a shared variable named a1
ShadowingInputs ==
    {[NoPtx EXCEPT !.arguments = Arguments(types), !.calls = calls,
                   !.globals = globals, !.operands = ops] :
        types \in [1..2 -> ArgumentTypes],
        calls \in {<<>>, <<[callee |-> "f", d |-> <<>>,
                           b |-> <<ParamX, [identifier |-> "a2", bytes |-> 4]>>]>>},
        globals \in {<<>>, <<Global("g1", "shared", FALSE, 4, 4, 4),
                            Global("a1", "shared", FALSE, 4, 4, 4)>>},
        ops \in OperandLists({"Ld"}, {"a1", "a2"})}

LayoutInputs ==
    ArgumentInputs \cup CallInputs \cup GlobalInputs \cup LocalInputs
        \cup TextureInputs \cup ShadowingInputs

InitLayout ==
    /\ InitCache
    /\ threads = {}
    /\ subkernelPtx \in LayoutInputs
    /\ layout = NoLayout
    /\ offsetTables = NoOffsetTables
    /\ passesRun = <<>>
    /\ padCall = NoPadCall
    /\ callTargets = NoCallTargets
    /\ optimizer = NoOptimizer
    /\ linker = NoLinker

CanRunPass(pass) ==
    /\ ~aborted
    /\ Len(passesRun) < MaxLayoutRuns * Len(PassOrder)
    /\ NextPass = pass

\* a failing assert of a pass in a build with assertions
LayoutAbort ==
    /\ aborted' = TRUE
    /\ UNCHANGED <<modules, kernels, subkernelsToKernel, translationCache,
                   tks, trs, mds, jit, th, threads, ndebug, log,
                   registered, translateCount>>
    /\ UNCHANGED layoutVars

setupGlobalMemoryReferences ==
    /\ CanRunPass("global")
    /\ subkernelPtx' = [subkernelPtx EXCEPT !.operands =
                            MarkGlobals(@, subkernelPtx.globals)]
    /\ passesRun' = Append(passesRun, "global")
    /\ UNCHANGED <<cacheVars, layout, offsetTables, stepVars>>

setupArgumentMemoryReferences ==
    /\ CanRunPass("argument")
    /\ LET done == LayoutArguments(subkernelPtx.arguments, 0, EmptyMap)
       IN /\ subkernelPtx' = [subkernelPtx EXCEPT !.operands =
                                  RewriteOperands(@, done.offsets, TRUE)]
          /\ layout' = [layout EXCEPT !.argumentSize = done.offset]
          /\ offsetTables' = [offsetTables EXCEPT !.argument = done.offsets]
    /\ passesRun' = Append(passesRun, "argument")
    /\ UNCHANGED <<cacheVars, stepVars>>

setupParameterMemoryReferences ==
    /\ CanRunPass("parameter")
    /\ LET done == LayoutCalls(subkernelPtx.calls,
                               [offset |-> 0, offsets |-> EmptyMap, clash |-> FALSE,
                                size |-> 0])
       IN IF done.clash /\ ~ndebug
          THEN \* assert(offsets.count(argument->identifier) == 0)
               LayoutAbort
          ELSE /\ subkernelPtx' = [subkernelPtx EXCEPT !.operands =
                                      RewriteOperands(@, done.offsets, FALSE)]
               /\ layout' = [layout EXCEPT !.parameterSize =
                                LayoutFunctions(subkernelPtx.functions, done.size)]
               /\ offsetTables' = [offsetTables EXCEPT !.parameter = done.offsets]
               /\ passesRun' = Append(passesRun, "parameter")
               /\ UNCHANGED <<cacheVars, stepVars>>

setupSharedMemoryReferences ==
    /\ CanRunPass("shared")
    /\ LET done == LayoutShared(SharedDeclarations(subkernelPtx),
                                [size |-> 0, offsets |-> EmptyMap, external |-> {},
                                 externalAlignment |-> 1, clash |-> FALSE])
           sharedSize == Padded(done.size, done.externalAlignment)
       IN IF done.clash /\ ~ndebug
          THEN \* assert(external.count(local->second.name) == 0)
               LayoutAbort
          ELSE /\ subkernelPtx' = [subkernelPtx EXCEPT !.operands =
                      PlaceExternalOperands(
                          PlaceOperands(@, {"Mov", "Ld", "St", "Cvta"}, done.offsets,
                                        done.external, "shared"),
                          done.external, sharedSize)]
               /\ layout' = [layout EXCEPT !.sharedSize = sharedSize]
               /\ offsetTables' = [offsetTables EXCEPT
                                       !.shared = done.offsets,
                                       !.external = done.external,
                                       !.externalAlignment = done.externalAlignment]
               /\ passesRun' = Append(passesRun, "shared")
               /\ UNCHANGED <<cacheVars, stepVars>>

setupConstantMemoryReferences ==
    /\ CanRunPass("constant")
    /\ LET done == LayoutConstants(subkernelPtx.globals,
                                   [size |-> 0, offsets |-> EmptyMap])
       IN /\ subkernelPtx' = [subkernelPtx EXCEPT !.operands =
                 PlaceOperands(@, {"Mov", "Ld", "St"}, done.offsets, {}, "const")]
          /\ layout' = [layout EXCEPT !.constantSize = done.size]
          /\ offsetTables' = [offsetTables EXCEPT !.constant = done.offsets]
    /\ passesRun' = Append(passesRun, "constant")
    /\ UNCHANGED <<cacheVars, stepVars>>

setupTextureMemoryReferences ==
    /\ CanRunPass("texture")
    /\ LET done == LayoutTextures(subkernelPtx.tex,
                                  [tex |-> <<>>, slots |-> EmptyMap,
                                   textures |-> layout.textures,
                                   queries |-> layout.queries,
                                   registry |-> subkernelPtx.registry,
                                   clash |-> FALSE])
       IN IF done.clash /\ ~ndebug
          THEN \* assert(texture != 0)
               LayoutAbort
          ELSE /\ subkernelPtx' = [subkernelPtx EXCEPT !.tex = done.tex]
               /\ layout' = [layout EXCEPT !.textures = done.textures,
                                           !.queries = done.queries]
               /\ offsetTables' = [offsetTables EXCEPT !.texture = done.slots]
               /\ passesRun' = Append(passesRun, "texture")
               /\ UNCHANGED <<cacheVars, stepVars>>

setupLocalMemoryReferences ==
    /\ CanRunPass("local")
    /\ LET done == LayoutLocals(LocalOrder, subkernelPtx.locals,
                                [size |-> 0, offsets |-> EmptyMap])
       IN /\ subkernelPtx' = [subkernelPtx EXCEPT !.operands =
                 PlaceOperands(@, {"Mov", "Ld", "St"}, done.offsets, {}, "local")]
          /\ layout' = [layout EXCEPT !.localSize = done.size]
          /\ offsetTables' = [offsetTables EXCEPT !.local = done.offsets]
    /\ passesRun' = Append(passesRun, "local")
    /\ UNCHANGED <<cacheVars, stepVars>>

NextLayout ==
    \/ setupGlobalMemoryReferences
    \/ setupArgumentMemoryReferences
    \/ setupParameterMemoryReferences
    \/ setupSharedMemoryReferences
    \/ setupConstantMemoryReferences
    \/ setupTextureMemoryReferences
    \/ setupLocalMemoryReferences

SpecLayout == InitLayout /\ [][NextLayout]_vars

----------------------------------------------------------------------------
\* pad on its own: one call with any size and any alignment of at least 1.

InitPad ==
    /\ InitCache
    /\ threads = {}
    /\ NoSubkernel
    /\ callTargets = NoCallTargets
    /\ optimizer = NoOptimizer
    /\ linker = NoLinker
    /\ \E size \in 0..(UnsignedLimit - 1), alignment \in 1..MaxAlignment :
          padCall = [size |-> size, alignment |-> alignment, before |-> size,
                     padding |-> 0, returned |-> FALSE]

\* unsigned int padding = pad(size, alignment);
callPad ==
    /\ ~padCall.returned
    /\ padCall' = [padCall EXCEPT !.size = Padded(padCall.size, padCall.alignment),
                                  !.padding = pad(padCall.size, padCall.alignment),
                                  !.returned = TRUE]
    /\ UNCHANGED <<cacheVars, subkernelPtx, layout, offsetTables, passesRun,
                   callTargets, optimizer, linker>>

NextPad == callPad

SpecPad == InitPad /\ [][NextPad]_vars

----------------------------------------------------------------------------
\* setupCallTargets on its own: the Call and Mov instructions of a subkernel.
\* An instruction is its opcode, ptx.tailCall, ptx.a.addressMode,
\* ptx.a.identifier and ptx.reentryPoint (Null while no target is set).

\* the name of another subkernel of the kernel being registered
OtherSubkernel == "k1_subkernel2"

\* the name of a function that is no subkernel and no intrinsic
UnknownFunction == "printf"

CallInstructions ==
    [opcode : {"Call", "Mov"}, tailCall : BOOLEAN,
     addressMode : {"FunctionName", "Register"},
     identifier : {DivergenceMarker, OtherSubkernel, UnknownFunction},
     reentryPoint : {Null}]

InitCallTargets ==
    /\ InitCache
    /\ threads = {}
    /\ NoSubkernel
    /\ padCall = NoPadCall
    /\ optimizer = NoOptimizer
    /\ linker = NoLinker
    /\ \E instructions \in UNION {[1..n -> CallInstructions] :
                                    n \in 0..MaxCallInstructions} :
          callTargets = [instructions |-> instructions, done |-> FALSE]

\* the instructions that reach assert(0 && "arbitrary function calls not yet
\* supported"): not a tail call, a function name, not the divergence marker
Unsupported(instruction) ==
    /\ instruction.opcode \in {"Call", "Mov"}
    /\ ~instruction.tailCall
    /\ instruction.addressMode = "FunctionName"
    /\ instruction.identifier # DivergenceMarker

setupCallTargets ==
    /\ ~aborted
    /\ ~callTargets.done
    /\ IF ~ndebug /\ \E i \in DOMAIN callTargets.instructions :
                        Unsupported(callTargets.instructions[i])
       THEN \* assert(0 && "arbitrary function calls not yet supported")
            LayoutAbort
       ELSE \* ptx.reentryPoint = id is commented out: no instruction is written
            /\ callTargets' = [callTargets EXCEPT !.done = TRUE]
            /\ UNCHANGED <<cacheVars, subkernelPtx, layout, offsetTables, passesRun,
                           padCall, optimizer, linker>>

NextCallTargets == setupCallTargets

SpecCallTargets == InitCallTargets /\ [][NextCallTargets]_vars

----------------------------------------------------------------------------
\* cloneAndOptimizeTranslation on its own: the level it derives from the
\* configured optimization and the passes it adds to the FunctionPassManager.

\* translator::Translator::OptimizationLevel
OptimizationLevels ==
    {"NoOptimization", "ReportOptimization", "DebugOptimization",
     "BasicOptimization", "AggressiveOptimization", "SpaceOptimization",
     "FullOptimization"}

\* switch (optimization): level
OptimizationLevel(optimization) ==
    CASE optimization = "BasicOptimization" -> 1
      [] optimization = "AggressiveOptimization" -> 2
      [] optimization = "SpaceOptimization" -> 2
      [] optimization = "FullOptimization" -> 3
      [] OTHER -> 0

\* switch (optimization): space
OptimizeForSpace(optimization) == optimization = "SpaceOptimization"

\* level = 1; the statement between the switch and the choice of the passes
OverriddenLevel(level) == 1

\* the passes added for a level, in order
PassPipeline(level, space) ==
    IF level = 0 THEN <<>>
    ELSE IF level = 1
    THEN <<"InstructionCombining", "Reassociate", "GVN", "CFGSimplification">>
    ELSE <<"SimplifyLibCalls", "InstructionCombining", "JumpThreading",
           "CFGSimplification", "ScalarReplAggregates", "InstructionCombining",
           "TailCallElimination", "CFGSimplification", "Reassociate", "LoopRotate",
           "LICM", IF space \/ level < 3 THEN "LoopUnswitchForSize" ELSE "LoopUnswitch",
           "InstructionCombining", "IndVarSimplify", "LoopDeletion">>
         \o (IF level > 2 THEN <<"LoopUnroll">> ELSE <<>>)
         \o <<"InstructionCombining", "GVN", "MemCpyOpt", "SCCP",
              "InstructionCombining", "DeadStoreElimination", "AggressiveDCE",
              "CFGSimplification">>

InitOptimizer ==
    /\ InitCache
    /\ threads = {}
    /\ NoSubkernel
    /\ padCall = NoPadCall
    /\ callTargets = NoCallTargets
    /\ linker = NoLinker
    /\ \E optimization \in OptimizationLevels, warpSize \in 1..MaxWarpSize :
          optimizer = [NoOptimizer EXCEPT !.optimization = optimization,
                                          !.warpSize = warpSize]

\* cloneAndOptimizeTranslation up to manager.run: level is what the name of the
\* clone is built from, passes what the manager runs
optimizeTranslation ==
    /\ ~optimizer.done
    /\ optimizer' =
          [optimizer EXCEPT
              !.level = OptimizationLevel(optimizer.optimization),
              !.space = OptimizeForSpace(optimizer.optimization),
              !.passes = PassPipeline(
                             OverriddenLevel(OptimizationLevel(optimizer.optimization)),
                             OptimizeForSpace(optimizer.optimization)),
              !.done = TRUE]
    /\ UNCHANGED <<cacheVars, subkernelPtx, layout, offsetTables, passesRun,
                   padCall, callTargets, linker>>

NextOptimizer == optimizeTranslation

SpecOptimizer == InitOptimizer /\ [][NextOptimizer]_vars

----------------------------------------------------------------------------
\* linkLLVMModule and what follows it in _specializeTranslation. A global is a
\* statement of the module: its name, its directive, whether the generated
\* LLVM module has a value of that name (module.getNamedValue), and whether the
\* device has an allocation for it (device->getGlobalAllocation).

LinkGlobals ==
    [name : {"g1", "g2"}, directive : {"global", "shared"}, inModule : BOOLEAN,
     allocated : BOOLEAN]

InitLinker ==
    /\ InitCache
    /\ threads = {}
    /\ NoSubkernel
    /\ padCall = NoPadCall
    /\ callTargets = NoCallTargets
    /\ optimizer = NoOptimizer
    /\ \E globals \in NamedLists(LinkGlobals, MaxLinkGlobals) :
          linker = [globals |-> globals, bound |-> {}, pc |-> "link"]

\* the .global statements of the module, which the loop of linkLLVMModule binds
GlobalsToLink(globals) == SelectSeq(globals, LAMBDA g : g.directive = "global")

\* what allocation->pointer() through a null pointer can do
NullAllocationReads == {"fault", "garbage"}

\* linkLLVMModule: a failing assertM(value != 0) or assert(allocation != 0)
\* ends the process; without assertions a value of 0 is mapped, and
\* allocation->pointer() on a null allocation faults or yields some address
linkLLVMModule(ub) ==
    /\ ~aborted
    /\ linker.pc = "link"
    /\ LET todo == GlobalsToLink(linker.globals)
           failing == \E i \in DOMAIN todo : ~todo[i].inModule \/ ~todo[i].allocated
           unallocated == \E i \in DOMAIN todo : ~todo[i].allocated
       IN IF failing /\ ~ndebug
          THEN LayoutAbort
          ELSE /\ linker' =
                     IF unallocated /\ ub = "fault"
                     THEN [linker EXCEPT !.pc = "fault"]
                     ELSE [linker EXCEPT !.pc = "entry",
                                         !.bound = {todo[i].name : i \in DOMAIN todo}]
               /\ UNCHANGED <<cacheVars, subkernelPtx, layout, offsetTables, passesRun,
                              padCall, callTargets, optimizer>>

\* getPointerToFunction, verifyModule and the two stores into the cache
publishTranslation ==
    /\ ~aborted
    /\ linker.pc = "entry"
    /\ linker' = [linker EXCEPT !.pc = "published"]
    /\ UNCHANGED <<cacheVars, subkernelPtx, layout, offsetTables, passesRun,
                   padCall, callTargets, optimizer>>

NextLinker ==
    \/ \E ub \in NullAllocationReads : linkLLVMModule(ub)
    \/ publishTranslation

SpecLinker == InitLinker /\ [][NextLinker]_vars


----------------------------------------------------------------------------
\* What the properties below read.

\* the Translation translationCache holds for a key, Null when none
Lookup(sk, ws) ==
    IF sk \in DOMAIN translationCache /\ ws \in DOMAIN translationCache[sk]
    THEN translationCache[sk][ws] ELSE Null

\* the Translation the specialization table of subkernel sk in TranslatedKernel i
\* holds for warp size ws, Null when none
TableLookup(i, sk, ws) ==
    IF sk \in DOMAIN tks[i].subkernels /\ ws \in DOMAIN tks[i].subkernels[sk].translations
    THEN tks[i].subkernels[sk].translations[ws] ELSE Null

\* the Translations ever constructed for a key, and those not deleted since
Constructed(key) == {i \in DOMAIN trs : trs[i].key = key}
Live(key) == {i \in Constructed(key) : ~trs[i].deleted}

\* the Translations that were stored in the cache for a key
Published(key) == {i \in Constructed(key) : trs[i].function # Null}

LastIs(op) == log # <<>> /\ log[1].op = op

\* thread t is inside (or was ended inside) a call for a key an earlier attempt
\* failed on
Retrying(t) ==
    /\ th[t].op = "getOrInsertTranslation"
    /\ \E i \in DOMAIN trs : /\ i # th[t].trn
                             /\ trs[i].key = <<th[t].sk, th[t].ww>>
                             /\ trs[i].deleted

----------------------------------------------------------------------------
\* C1 as stated: for every (subkernelId, warpWidth) key at most one Translation
\* has ever been constructed, and a Translation the cache was given for the key
\* is the one the cache still maps the key to.
C1_AtMostOneEverConstructed ==
    \A key \in Keys :
        /\ Cardinality(Constructed(key)) <= 1
        /\ \A i \in Published(key) : Lookup(key[1], key[2]) = i

\* C1, amended: with one caller, for every key at most one Translation object
\* exists at a time and at most one is ever stored in the cache (a failed attempt
\* deletes its Translation and a retry constructs another); a Translation the
\* cache was given for the key is the one the cache still maps the key to, so the
\* mapping is never replaced and never removed.
C1_WriteOncePublish ==
    \A key \in Keys :
        /\ Cardinality(Live(key)) <= 1
        /\ Cardinality(Published(key)) <= 1
        /\ \A i \in Published(key) : Lookup(key[1], key[2]) = i

\* C1 witness: a key whose first attempt failed and whose retry was published.
C1_Witness ==
    \E key \in Keys :
        /\ Cardinality(Constructed(key)) = 2
        /\ Lookup(key[1], key[2]) # Null

\* C2: two successive getOrInsertTranslation calls with the same subkernelId and
\* warp width that both return, return the same Translation instance, whatever
\* the specialization flags.
C2_SameInstance ==
    [][(/\ LastIs("getOrInsertTranslation")
        /\ log[1].res = "ok"
        /\ log' # <<>>
        /\ log'[1].op = "getOrInsertTranslation"
        /\ log'[1].res = "ok"
        /\ log'[1].sk = log[1].sk
        /\ log'[1].ww = log[1].ww)
       => log'[1].ret = log[1].ret]_vars

\* C2 witness: the last call was served from the cache, so an earlier call with
\* the same key had returned.
C2_Witness ==
    /\ LastIs("getOrInsertTranslation")
    /\ log[1].hit
    /\ log[1].ret = Lookup(log[1].sk, log[1].ww)

\* C3: with several threads calling getOrInsertTranslation for the same uncached
\* key, one Translation is constructed for the key and every caller gets it: no
\* key ever has two Translations that both stand (neither deleted by a failed
\* attempt).
C3_OneConstructionPerKey ==
    \A key \in Keys : Cardinality(Live(key)) <= 1

\* C4: the Translations of one subkernel for two different warp widths are
\* distinct and reference the same Metadata object, the subkernel's.
C4_DistinctSharingMetadata ==
    \A sk \in SubkernelIds : \A w1, w2 \in WarpWidths :
        (w1 # w2 /\ Lookup(sk, w1) # Null /\ Lookup(sk, w2) # Null) =>
            /\ Lookup(sk, w1) # Lookup(sk, w2)
            /\ trs[Lookup(sk, w1)].metadata # Null
            /\ trs[Lookup(sk, w1)].metadata = trs[Lookup(sk, w2)].metadata

C6_ReRegisterIsNoOp ==
    [][\A k \in registered :
          /\ kernels'[k] = kernels[k]
          /\ Len(tks') = Len(tks)
          /\ translateCount' = translateCount]_vars

\* C7: after a registerKernel that failed, kernels holds no TranslatedKernel for
\* the kernel, none of its subkernel ids is in subkernelsToKernel and none of
\* its subkernels is recorded as translated.
C7_FailedRegistrationLeavesNothing ==
    (LastIs("registerKernel") /\ log[1].res = "exception") =>
        LET k == log[1].k IN
        /\ MapGet(kernels, k) = Null
        /\ \A n \in DOMAIN KernelSubkernels(k) :
              MapGet(subkernelsToKernel, KernelSubkernels(k)[n]) = Null
        /\ \A i \in DOMAIN tks : tks[i].kernel = k => tks[i].subkernels = EmptyMap

\* C8: a getOrInsertTranslation call in which a verification of the module
\* reported a failure ends with an exception and leaves no Translation cached
\* for its key.
C8_VerifyFailureIsFatal ==
    (LastIs("getOrInsertTranslation") /\ log[1].vfail) =>
        /\ log[1].res = "exception"
        /\ Lookup(log[1].sk, log[1].ww) = Null

\* C9: a call for a key on which an earlier attempt failed, and whose own
\* backend steps all succeed, is not ended by a fault: it runs to the point
\* where it publishes its Translation.
C9_RetryAfterFailure ==
    \A t \in threads : (Retrying(t) /\ th[t].envOk) => th[t].pc # "aborted"

\* C10: every cached Translation stays usable: the llvm::Module of its kernel
\* lives, is attached to the JIT and still holds the Translation's function and
\* the subkernel's base function, and its Metadata has not been deleted.
C10_PublishedStaysUsable ==
    \A key \in Keys :
        LET T == Lookup(key[1], key[2]) IN
        T # Null =>
            /\ tks[trs[T].tk].llvmModule = "live"
            /\ trs[T].tk \in jit
            /\ trs[T].llvmFunction \in tks[trs[T].tk].functions
            /\ BaseFunction(key[1]) \in tks[trs[T].tk].functions
            /\ ~mds[trs[T].metadata].deleted

----------------------------------------------------------------------------
\* C11: a registerKernel call for a kernel whose module name is not in modules
\* ends the process and does nothing else: no such call is ever past its entry
\* check (translating), and none ever returns.
C11_UnknownModuleIsFatal ==
    /\ \A t \in threads :
          (th[t].op = "registerKernel" /\ KernelModule(th[t].k) \notin DOMAIN modules) =>
              /\ th[t].pc = "aborted"
              /\ MapGet(kernels, th[t].k) = Null
              /\ tks = <<>>
    /\ LastIs("registerKernel") => KernelModule(log[1].k) \in DOMAIN modules

\* C12: a loadModule call returns true, and when it has returned modules holds
\* for the module's name exactly the entry built from the call's arguments: the
\* IR module pointer and the device of that (the most recent) call and an empty
\* kernels map; hence a repeated call leaves the registry as it is.
C12_LoadModuleLastWriteWins ==
    LastIs("loadModule") =>
        /\ log[1].ret = 1
        /\ log[1].res = "ok"
        /\ ModuleName(log[1].module) \in DOMAIN modules
        /\ modules[ModuleName(log[1].module)] =
              [ptxModule |-> log[1].module, device |-> log[1].device,
               kernels |-> EmptyMap]
        /\ DOMAIN modules = {ModuleName(q) : q \in PtxModules}

\* C12 witness: with assertions compiled in, a loadModule of p2 has returned
\* after a kernel was registered, so the name had been loaded before.
C12_Witness ==
    /\ LastIs("loadModule")
    /\ log[1].module = "p2"
    /\ ~ndebug
    /\ registered # {}

\* C13: every entry of translationCache belongs to a subkernel whose kernel was
\* registered successfully and which has Metadata and a base function.
C13_CachedIsBaseTranslated ==
    \A key \in Keys :
        LET T == Lookup(key[1], key[2]) IN
        T # Null =>
            /\ SubkernelKernel(key[1]) \in registered
            /\ trs[T].metadata # Null
            /\ key[1] \in DOMAIN tks[trs[T].tk].subkernels
            /\ tks[trs[T].tk].subkernels[key[1]].llvmFunction # Null

\* C14: registration and the miss path exclude each other: at no time are two
\* threads both inside _translateKernel or _specializeTranslation.
C14_MutualExclusion ==
    Cardinality({t \in threads : th[t].pc \in {"translate", "clone", "jit"}}) <= 1

\* C15: a Metadata object, once created, is never written again (nor deleted),
\* whatever calls follow, and a step of getOrInsertTranslation runs no layout
\* pass (they run only together with translator.translate in _translateKernel).
C15_MetadataImmutable ==
    [][/\ \A i \in DOMAIN mds : i \in DOMAIN mds' /\ mds'[i] = mds[i]
       /\ (\E t \in threads : \/ th[t].op = "getOrInsertTranslation"
                              \/ th'[t].op = "getOrInsertTranslation")
             => translateCount' = translateCount]_vars

\* C15 witness: a Translation for warp width 2 is cached and the Metadata it
\* shares still has the warp size registration gave it.
C15_Witness ==
    \E sk \in SubkernelIds :
        /\ Lookup(sk, 2) # Null
        /\ trs[Lookup(sk, 2)].metadata # Null
        /\ mds[trs[Lookup(sk, 2)].metadata].warpSize = 1

\* C16: translationCache maps (subkernelId, warpWidth) to T exactly when the
\* specialization table of the subkernel, in the TranslatedKernel that kernels
\* holds for its kernel, maps warpWidth to T.
C16_CacheLevelsAgree ==
    \A key \in Keys :
        LET tk == MapGet(kernels, SubkernelKernel(key[1])) IN
        Lookup(key[1], key[2]) =
            (IF tk = Null THEN Null ELSE TableLookup(tk, key[1], key[2]))

\* C17: a getOrInsertTranslation call that finds its key in translationCache
\* returns in the same step, never entering a backend step, and leaves modules,
\* kernels, subkernelsToKernel, both cache levels, the heap objects and the JIT
\* as they were.
C17_HitChangesNothing ==
    [][/\ \A t \in AllThreads : th'[t].hit => th'[t].pc = "idle"
       /\ (log' # log /\ log'[1].op = "getOrInsertTranslation" /\ log'[1].hit) =>
              UNCHANGED <<modules, kernels, subkernelsToKernel, translationCache,
                          tks, trs, mds, jit, th, translateCount>>]_vars

\* C17 witness: a call has been served from the cache, returning a Translation
\* with a native entry point.
C17_Witness ==
    /\ LastIs("getOrInsertTranslation")
    /\ log[1].hit
    /\ log[1].res = "ok"
    /\ trs[log[1].ret].function # Null

----------------------------------------------------------------------------
\* What the layout properties read.

\* x rounded up to a multiple of a
RoundUp(x, a) == ((x + a - 1) \div a) * a

\* the packed size of a list of byte widths, each entry placed at the next
\* multiple of its own width
RECURSIVE PackedSize(_)
PackedSize(widths) ==
    IF widths = <<>> THEN 0
    ELSE LET front == SubSeq(widths, 1, Len(widths) - 1)
         IN RoundUp(PackedSize(front), widths[Len(widths)]) + widths[Len(widths)]

\* the byte widths a call passes: its d array, then its b array
CallWidths(call) ==
    [i \in 1..(Len(call.d) + Len(call.b)) |->
        IF i <= Len(call.d) THEN call.d[i].bytes ELSE call.b[i - Len(call.d)].bytes]

Maximum(S) == CHOOSE m \in S : \A x \in S : x <= m

LastPass == IF passesRun = <<>> THEN "none" ELSE passesRun[Len(passesRun)]

----------------------------------------------------------------------------
\* C18: when the argument pass has run, the i-th argument's offset is the end of
\* the previous argument (0 for the first) rounded up to the i-th argument's
\* alignment, and argumentSize is the last argument's offset plus its size; an
\* int followed by a double get offsets 0 and 8 and argumentSize 16.
C18_ArgumentLayout ==
    LastPass = "argument" =>
        LET args == subkernelPtx.arguments
            at(i) == offsetTables.argument[args[i].name]
        IN /\ DOMAIN offsetTables.argument = {args[i].name : i \in DOMAIN args}
           /\ \A i \in DOMAIN args :
                 at(i) = RoundUp(IF i = 1 THEN 0 ELSE at(i - 1) + args[i - 1].size,
                                 args[i].alignment)
           /\ args # <<>> => layout.argumentSize = at(Len(args)) + args[Len(args)].size
           /\ args = Arguments(<< <<4, 4>>, <<8, 8>> >>) =>
                 /\ at(1) = 0
                 /\ at(2) = 8
                 /\ layout.argumentSize = 16

\* C18 witness: the argument pass has laid out an int followed by a double.
C18_Witness ==
    /\ LastPass = "argument"
    /\ subkernelPtx.arguments = Arguments(<< <<4, 4>>, <<8, 8>> >>)
    /\ layout.argumentSize = 16

\* C19: when the parameter pass has run, parameterSize is the largest of 0, the
\* packed size of the arguments of every call other than a divergence marker,
\* and the packed size of the declared parameters of every function of the
\* module.
C19_ParameterSize ==
    LastPass = "parameter" =>
        layout.parameterSize =
            Maximum({0}
                \cup {PackedSize(CallWidths(subkernelPtx.calls[i])) :
                        i \in {j \in DOMAIN subkernelPtx.calls :
                                 subkernelPtx.calls[j].callee # DivergenceMarker}}
                \cup {PackedSize(subkernelPtx.functions[i].arguments) :
                        i \in {j \in DOMAIN subkernelPtx.functions :
                                 subkernelPtx.functions[j].function}})

\* C19 witness: the pass has run on a subkernel with a divergence marker call
\* that passes more bytes than parameterSize came out as.
C19_Witness ==
    /\ LastPass = "parameter"
    /\ \E i \in DOMAIN subkernelPtx.calls :
          /\ subkernelPtx.calls[i].callee = DivergenceMarker
          /\ PackedSize(CallWidths(subkernelPtx.calls[i])) > layout.parameterSize
    /\ layout.parameterSize > 0

\* C20: a run of the parameter pass on a subkernel it has already processed
\* leaves parameterSize and every operand offset as they were.
C20_ParameterPassIdempotent ==
    [][(/\ passesRun' = Append(passesRun, "parameter")
        /\ \E i \in DOMAIN passesRun : passesRun[i] = "parameter")
       => /\ layout'.parameterSize = layout.parameterSize
          /\ subkernelPtx'.operands = subkernelPtx.operands]_vars

\* the packed sizes of the call sites of the subkernel, divergence markers or not
CallSizes(markers) ==
    {PackedSize(CallWidths(subkernelPtx.calls[i])) :
        i \in {j \in DOMAIN subkernelPtx.calls :
                 markers \/ subkernelPtx.calls[j].callee # DivergenceMarker}}

\* C21 as stated: when the module declares a kernel whose declared parameters
\* pack to more bytes than the arguments of every call site, parameterSize is
\* that kernel's packed declared parameter size.
C21_DeclaredKernelSize ==
    LastPass = "parameter" =>
        \A i \in DOMAIN subkernelPtx.functions :
            LET declared == PackedSize(subkernelPtx.functions[i].arguments)
            IN (\A size \in CallSizes(TRUE) : declared > size)
                  => layout.parameterSize = declared

\* C21, amended: when the module declares a function (a kernel for which
\* function() holds) whose declared parameters pack to more bytes than the
\* arguments of every call site and to no fewer than those of every other
\* function of the module, parameterSize is that function's packed declared
\* parameter size; kernels that are not functions do not count.
C21_LargestFunctionSize ==
    LastPass = "parameter" =>
        \A i \in DOMAIN subkernelPtx.functions :
            LET declared == PackedSize(subkernelPtx.functions[i].arguments)
            IN (/\ subkernelPtx.functions[i].function
                /\ \A size \in CallSizes(FALSE) : declared > size
                /\ \A j \in DOMAIN subkernelPtx.functions :
                      subkernelPtx.functions[j].function =>
                          PackedSize(subkernelPtx.functions[j].arguments) <= declared)
                  => layout.parameterSize = declared

\* C21 witness: the pass has run on a subkernel with call sites whose module
\* declares a function of 16 bytes of parameters and a larger kernel that is no
\* function, and parameterSize is 16.
C21_Witness ==
    /\ LastPass = "parameter"
    /\ subkernelPtx.calls # <<>>
    /\ \A size \in CallSizes(TRUE) : size < 16
    /\ subkernelPtx.functions = <<[function |-> FALSE, arguments |-> <<8, 8, 8>>],
                                  [function |-> TRUE, arguments |-> <<4, 8>>]>>
    /\ layout.parameterSize = 16

\* the elements of a sequence
Range(seq) == {seq[i] : i \in DOMAIN seq}

\* the variables the subkernel can address in shared memory: the .shared
\* statements of the module and the shared locals of the kernel
SharedVariables(ptx) ==
    {[name |-> g.name, extern |-> g.extern, alignment |-> g.alignment,
      bytes |-> g.bytes, elementBytes |-> g.elementBytes] :
        g \in {x \in Range(ptx.globals) : x.directive = "shared"}}
    \cup {[name |-> l.name, extern |-> l.extern, alignment |-> l.alignment,
           bytes |-> l.size, elementBytes |-> l.elementBytes] :
        l \in {x \in Range(ptx.locals) : x.space = "shared"}}

\* C22: when the shared pass runs, the external alignment is the largest of 1
\* and the declared alignment and the element byte width of every external
\* shared variable; sharedSize comes out as a multiple of it that is not below
\* the end of any variable that is not external; and every operand that names
\* an external shared variable has its offset increased by exactly that
\* sharedSize.
C22_SharedLayoutWithExternals ==
    [][passesRun' = Append(passesRun, "shared") =>
        LET variables == SharedVariables(subkernelPtx)
            externals == {v \in variables : v.extern}
            alignment == Maximum({1} \cup {v.alignment : v \in externals}
                                     \cup {v.elementBytes : v \in externals})
        IN /\ offsetTables'.externalAlignment = alignment
           /\ layout'.sharedSize % alignment = 0
           /\ \A v \in variables \ externals :
                 /\ v.name \in DOMAIN offsetTables'.shared
                 /\ layout'.sharedSize >= offsetTables'.shared[v.name] + v.bytes
           /\ \A i \in DOMAIN subkernelPtx.operands :
                 (\E v \in externals : v.name = subkernelPtx.operands[i].identifier)
                    => subkernelPtx'.operands[i].offset =
                           subkernelPtx.operands[i].offset + layout'.sharedSize]_vars

\* C22 witness: the shared pass has run on a subkernel whose module declares a
\* 4-byte shared variable and an external one aligned to 16 that an operand
\* names: sharedSize is 16 and the operand's offset has grown by 16.
C22_Witness ==
    /\ passesRun = <<"global", "argument", "parameter", "shared">>
    /\ [i \in DOMAIN subkernelPtx.globals |-> subkernelPtx.globals[i].name] = <<"g1", "e2">>
    /\ layout.sharedSize = 16
    /\ offsetTables.externalAlignment = 16
    /\ subkernelPtx.operands[1].identifier = "e2"
    /\ subkernelPtx.operands[1].offset = 20

\* the names declared as an external shared variable both by the module and by
\* the kernel
DuplicateExternals(ptx) ==
    {g.name : g \in {x \in Range(ptx.globals) : x.directive = "shared" /\ x.extern}}
    \cap {l.name : l \in {x \in Range(ptx.locals) : x.space = "shared" /\ x.extern}}

\* C23: the shared pass never completes on a subkernel for which an external
\* shared variable is declared twice, by the module and by the kernel: the
\* layout fails and no later pass runs.
C23_DuplicateExternalIsFatal ==
    DuplicateExternals(subkernelPtx) # {} =>
        \A i \in DOMAIN passesRun : passesRun[i] # "shared"

\* the names setupLocalMemoryReferences treats apart from the ordinary locals
ReservedLocals == {BarrierName, ResumeStatusName, ResumePointName, SpillAreaName}

\* whether the kernel declares a variable of this name in the local space
DeclaredLocal(name) ==
    \E l \in Range(subkernelPtx.locals) : l.name = name /\ l.space = "local"

\* C24: when the local pass has run, the barrier-resume slot has an offset
\* exactly when the kernel declares it as a local; the resume status and the
\* resume point always have one; the first of the three that is present is at
\* offset 0, each later one is higher than the one before, and every ordinary
\* local is higher than the resume point.
C24_ReservedSlotsFirst ==
    LastPass = "local" =>
        LET offsets == offsetTables.local IN
        /\ BarrierName \in DOMAIN offsets <=> DeclaredLocal(BarrierName)
        /\ ResumeStatusName \in DOMAIN offsets
        /\ ResumePointName \in DOMAIN offsets
        /\ IF DeclaredLocal(BarrierName)
           THEN /\ offsets[BarrierName] = 0
                /\ offsets[ResumeStatusName] > offsets[BarrierName]
           ELSE offsets[ResumeStatusName] = 0
        /\ offsets[ResumePointName] > offsets[ResumeStatusName]
        /\ \A l \in Range(subkernelPtx.locals) :
              (l.space = "local" /\ l.name \notin ReservedLocals) =>
                  /\ l.name \in DOMAIN offsets
                  /\ offsets[l.name] > offsets[ResumePointName]

\* C24 witness: the local pass has run on a kernel that declares the
\* barrier-resume local and an ordinary local, placed at 0 and at 16.
C24_Witness ==
    /\ LastPass = "local"
    /\ DeclaredLocal(BarrierName)
    /\ DeclaredLocal("l1")
    /\ offsetTables.local["l1"] = 16
    /\ offsetTables.local[ResumePointName] = 12

\* C25: when the local pass has run on a kernel that declares the spill area as
\* a local, the spill area's offset is above that of every other local and
\* reserved slot, and localSize is that offset plus the spill area's size.
C25_SpillAreaLast ==
    (LastPass = "local" /\ DeclaredLocal(SpillAreaName)) =>
        LET offsets == offsetTables.local
            spill == CHOOSE l \in Range(subkernelPtx.locals) : l.name = SpillAreaName
        IN /\ SpillAreaName \in DOMAIN offsets
           /\ \A name \in DOMAIN offsets \ {SpillAreaName} :
                 offsets[name] < offsets[SpillAreaName]
           /\ layout.localSize = offsets[SpillAreaName] + spill.size

\* C25 witness: the local pass has run on a kernel that declares the spill area
\* and two ordinary locals, the second ending at 36; the spill area is at 40 and
\* localSize is 48.
C25_Witness ==
    /\ LastPass = "local"
    /\ DeclaredLocal(SpillAreaName)
    /\ DeclaredLocal("l1")
    /\ DeclaredLocal("l2")
    /\ offsetTables.local["l2"] = 16
    /\ offsetTables.local["l1"] = 32
    /\ offsetTables.local[SpillAreaName] = 40
    /\ layout.localSize = 48

\* C26 as stated: the passes run in the order Argument, Parameter, Shared,
\* Constant, Local, Texture, so the texture pass always comes right after the
\* local pass.
C26_LocalThenTexture ==
    \A i \in DOMAIN passesRun :
        passesRun[i] = "texture" => (i > 1 /\ passesRun[i - 1] = "local")

\* C26, amended: the passes run, each after the one before has finished, in the
\* order Global, Argument, Parameter, Shared, Constant, Texture, Local.
C26_PassOrder ==
    \A i \in DOMAIN passesRun :
        passesRun[i] =
            <<"global", "argument", "parameter", "shared", "constant", "texture",
              "local">>[((i - 1) % 7) + 1]

\* C26 witness: all seven passes have run once on a subkernel with a Tex
\* instruction, and the texture pass has bound its texture.
C26_Witness ==
    /\ Len(passesRun) = 7
    /\ LastPass = "local"
    /\ layout.textures # <<>>
    /\ layout.localSize > 0

----------------------------------------------------------------------------
\* C27: every registerKernel or getOrInsertTranslation call that is in progress
\* eventually is over: it has returned, has thrown, or has ended the process.
C27_AttemptsEnd ==
    \A t \in AllThreads :
        (th[t].pc \in {"translate", "clone", "jit"}) ~> (th[t].pc \in {"idle", "aborted"})

\* C27 witness: a getOrInsertTranslation call has returned after running its
\* backend steps.
C27_Witness ==
    /\ LastIs("getOrInsertTranslation")
    /\ ~log[1].hit
    /\ log[1].res = "ok"
    /\ th[1].pc = "idle"

\* the steps s1, s2, ... occur in seq in this order
InOrder(seq, names) ==
    \E pos \in [DOMAIN names -> DOMAIN seq] :
        /\ \A i \in DOMAIN names : seq[pos[i]] = names[i]
        /\ \A i, j \in DOMAIN names : i < j => pos[i] < pos[j]

\* the subkernels recorded with a base function, as <<TranslatedKernel, id>>
Recorded ==
    {e \in (DOMAIN tks) \X SubkernelIds :
        /\ e[2] \in DOMAIN tks[e[1]].subkernels
        /\ tks[e[1]].subkernels[e[2]].llvmFunction # Null}

C30_PadRoundsUp ==
    padCall.returned =>
        LET s == padCall.before
            a == padCall.alignment
            p == padCall.padding
        IN /\ p = (a - (s % a)) % a
           /\ 0 <= p /\ p < a
           /\ padCall.size = s + p
           /\ padCall.size % a = 0
           /\ padCall.size >= s
           /\ \A m \in s..(padCall.size - 1) : m % a # 0

\* C30, amended: pad returns p = (a - (s mod a)) mod a with 0 <= p < a and leaves
\* in size (s + p) modulo the range of unsigned int; when s + p is an unsigned
\* int, that is s + p, the least multiple of a that is not below s.
C30_PadRoundsUpUnsigned ==
    padCall.returned =>
        LET s == padCall.before
            a == padCall.alignment
            p == padCall.padding
        IN /\ p = (a - (s % a)) % a
           /\ 0 <= p /\ p < a
           /\ padCall.size = (s + p) % UnsignedLimit
           /\ padCall.alignment = a
           /\ s + p < UnsignedLimit =>
                 /\ padCall.size = s + p
                 /\ padCall.size % a = 0
                 /\ \A m \in s..(padCall.size - 1) : m % a # 0

\* C30 witness: pad has returned a padding that is not zero.
C30_Witness ==
    /\ padCall.returned
    /\ padCall.padding > 0
    /\ padCall.size = padCall.before + padCall.padding

----------------------------------------------------------------------------
C40_MetadataWarpSizeIsOne ==
    /\ \A i \in DOMAIN mds : mds[i].warpSize = 1
    /\ \A sk \in SubkernelIds : \A w \in WarpWidths :
          (Lookup(sk, w) # Null /\ trs[Lookup(sk, w)].metadata # Null) =>
              mds[trs[Lookup(sk, w)].metadata].warpSize = 1

\* C40 witness: Translations of one subkernel are cached for warp widths 1 and
\* 2, and both reference a Metadata.
C40_Witness ==
    \E sk \in SubkernelIds :
        /\ Lookup(sk, 1) # Null
        /\ Lookup(sk, 2) # Null
        /\ Lookup(sk, 1) # Lookup(sk, 2)
        /\ trs[Lookup(sk, 1)].metadata # Null
        /\ trs[Lookup(sk, 2)].metadata # Null

----------------------------------------------------------------------------
\* C31: when the layout passes have all run once on a subkernel, every operand
\* whose identifier is the name of a kernel argument has as offset the
\* argument's offset plus the offset the operand had before, and is flagged as
\* an argument.
C31_ArgumentOperands ==
    LET argumentNames ==
            {subkernelPtx.arguments[i].name : i \in DOMAIN subkernelPtx.arguments}
    IN Len(passesRun) = Len(PassOrder) =>
        \A i \in DOMAIN subkernelPtx.operands :
            LET operand == subkernelPtx.operands[i] IN
            operand.identifier \in argumentNames =>
                /\ operand.offset =
                      offsetTables.argument[operand.identifier] + operand.original
                /\ operand.isArgument

----------------------------------------------------------------------------
\* C32: when the texture pass has run once, the k-th distinct texture symbol has
\* slot k in every Tex instruction that names it, the registry was asked once
\* for each distinct symbol, the Metadata texture list holds at index k the
\* reference of the symbol with slot k, and every symbol is one the device
\* knows (the pass does not complete otherwise).
C32_TextureBinding ==
    LET tex == subkernelPtx.tex
        symbols == {tex[i].identifier : i \in DOMAIN tex}
        \* the texture symbols the Tex instructions name before the i-th one
        TexturesBefore(i) == {tex[j].identifier : j \in 1..(i - 1)}
        \* the binding slot of the symbol of the i-th Tex instruction: the
        \* number of distinct symbols named before its first occurrence
        BindingSlot(i) ==
            LET first == CHOOSE j \in 1..i :
                            /\ tex[j].identifier = tex[i].identifier
                            /\ tex[i].identifier \notin TexturesBefore(j)
            IN Cardinality(TexturesBefore(first))
    IN (Len(passesRun) < Len(PassOrder) /\ \E i \in DOMAIN passesRun : passesRun[i] = "texture") =>
           /\ \A i \in DOMAIN tex : tex[i].reg = BindingSlot(i)
           /\ Len(layout.queries) = Cardinality(symbols)
           /\ {layout.queries[q] : q \in DOMAIN layout.queries} = symbols
           /\ Len(layout.textures) = Cardinality(symbols)
           /\ \A i \in DOMAIN tex :
                 layout.textures[BindingSlot(i) + 1] = tex[i].identifier
           /\ symbols \subseteq subkernelPtx.registry

\* C38: in the argument, shared (external variables apart), constant and local
\* regions, the entries a pass has placed have pairwise disjoint byte ranges,
\* each starts at a multiple of its alignment, and the region size in Metadata
\* is at least the end of each.
C38_RegionsWellPlaced ==
    LET ptx == subkernelPtx
        \* the entries of a region: the offset the pass gave each name, with
        \* the size and alignment declared for it
        Entries(table, declared) ==
            {[name |-> d.name, offset |-> table[d.name], size |-> d.size,
              alignment |-> d.alignment] :
                d \in {x \in declared : x.name \in DOMAIN table}}
        \* pairwise disjoint byte ranges inside [0, size), each at a multiple
        \* of its alignment
        WellPlaced(entries, size) ==
            /\ \A e \in entries :
                  e.offset % e.alignment = 0 /\ e.offset + e.size <= size
            /\ \A e, f \in entries :
                  e.name # f.name =>
                      (e.offset + e.size <= f.offset \/ f.offset + f.size <= e.offset)
        \* what the kernel and its module declare for each region
        declaredArguments ==
            {[name |-> a.name, size |-> a.size, alignment |-> a.alignment] :
                a \in Range(ptx.arguments)}
        declaredShared ==
            {[name |-> v.name, size |-> v.bytes, alignment |-> v.alignment] :
                v \in {x \in SharedVariables(ptx) : ~x.extern}}
        declaredConstants ==
            {[name |-> g.name, size |-> g.bytes, alignment |-> g.alignment] :
                g \in {x \in Range(ptx.globals) : x.directive = "const"}}
        declaredLocals ==
            {[name |-> l.name, size |-> l.size, alignment |-> l.alignment] :
                l \in {x \in Range(ptx.locals) : x.space = "local"}}
            \cup {[name |-> ResumeStatusName, size |-> SizeofInt, alignment |-> SizeofInt],
                  [name |-> ResumePointName, size |-> SizeofInt, alignment |-> SizeofInt]}
    IN /\ WellPlaced(Entries(offsetTables.argument, declaredArguments), layout.argumentSize)
       /\ WellPlaced(Entries(offsetTables.shared, declaredShared), layout.sharedSize)
       /\ WellPlaced(Entries(offsetTables.constant, declaredConstants), layout.constantSize)
       /\ WellPlaced(Entries(offsetTables.local, declaredLocals), layout.localSize)
       /\ DOMAIN offsetTables.local \subseteq {d.name : d \in declaredLocals}

\* C38 witness: all passes have run on a kernel that declares the barrier-resume
\* local and two ordinary locals, so that the local region has five entries.
C38_Witness ==
    /\ Len(passesRun) = Len(PassOrder)
    /\ DeclaredLocal(BarrierName)
    /\ DeclaredLocal("l1")
    /\ DeclaredLocal("l2")
    /\ Cardinality(DOMAIN offsetTables.local) = 5
    /\ layout.localSize = 48

----------------------------------------------------------------------------
\* the instructions that call, not as a tail call, a function of this name
CallsTo(names) ==
    {i \in DOMAIN callTargets.instructions :
        /\ callTargets.instructions[i].opcode = "Call"
        /\ ~callTargets.instructions[i].tailCall
        /\ callTargets.instructions[i].addressMode = "FunctionName"
        /\ callTargets.instructions[i].identifier \in names}

\* C33: when every call that is not a tail call names the divergence marker or
\* another subkernel of the kernel, setupCallTargets does not fail, and once it
\* has run every call that names another subkernel carries a resolved target.
C33_SubkernelCallsResolved ==
    (CallsTo({UnknownFunction}) = {} /\ ~\E i \in DOMAIN callTargets.instructions :
            callTargets.instructions[i].opcode = "Mov") =>
        /\ ~aborted
        /\ callTargets.done =>
              \A i \in CallsTo({OtherSubkernel}) :
                  callTargets.instructions[i].reentryPoint # Null

\* C34: setupCallTargets leaves tail calls and calls of the divergence marker as
\* they are and never fails on them, and it does not complete on a subkernel
\* with a call, not a tail call, of a function that is neither the divergence
\* marker nor another subkernel.
C34_UnresolvableCallIsFatal ==
    /\ \A i \in DOMAIN callTargets.instructions :
          callTargets.instructions[i].reentryPoint = Null
    /\ (\A i \in DOMAIN callTargets.instructions :
            \/ callTargets.instructions[i].tailCall
            \/ callTargets.instructions[i].identifier = DivergenceMarker) => ~aborted
    /\ callTargets.done => CallsTo({UnknownFunction}) = {}

----------------------------------------------------------------------------
\* C35: the passes cloneAndOptimizeTranslation runs are those of the configured
\* level: none at the none level, the light pipeline at the basic level, the
\* aggressive pipeline at the aggressive, space and full levels, with loop
\* unrolling at the full level only.
C35_PipelineByLevel ==
    optimizer.done =>
        LET passes == {optimizer.passes[i] : i \in DOMAIN optimizer.passes} IN
        /\ optimizer.optimization = "NoOptimization" => optimizer.passes = <<>>
        /\ optimizer.optimization = "BasicOptimization" =>
              optimizer.passes =
                  <<"InstructionCombining", "Reassociate", "GVN", "CFGSimplification">>
        /\ optimizer.optimization \in {"AggressiveOptimization", "SpaceOptimization",
                                       "FullOptimization"} =>
              /\ Len(optimizer.passes) > 4
              /\ "AggressiveDCE" \in passes
              /\ "LoopUnroll" \in passes <=> optimizer.optimization = "FullOptimization"

\* C36: a specialization attempt fails exactly when a global the generated
\* module references has no device allocation, and publishes only after every
\* referenced global was bound.
C36_LinkFailsExactlyWhenUnallocated ==
    LET \* the .global statements of the module that the generated module references
        referenced ==
            {g \in Range(linker.globals) : g.directive = "global" /\ g.inModule}
        missing == \E g \in referenced : ~g.allocated
    IN /\ (aborted \/ linker.pc = "fault") => missing
       /\ linker.pc \in {"entry", "published"} =>
             /\ ~missing
             /\ {g.name : g \in referenced} \subseteq linker.bound

====
